---- MODULE Spec2Model ----
(***************************************************************************)
(* Model of the clinical-trial crawling engine:                            *)
(*   crawler/1c_fixed.py  full-backfill walker (crawl_years) and its        *)
(*                        Reconciler (save_final)                           *)
(*   crawler/2c.py        incremental walker (crawl_incremental) and main   *)
(*   jobs/daily_update_2c.py  stage 3, the sheet reconciliation             *)
(*   _looks_garbage_page  the Page Classifier                               *)
(*                                                                         *)
(* One module, several specifications over the same variables:             *)
(*   SpecMerge     save_final as a function of any session/persisted data   *)
(*   Spec          crawl_years, one session from start to the finally block *)
(*   SpecLong      crawl_years, sessions of more than 500 identifiers       *)
(*   SpecFetch     crawl_years with the pinned endpoint and the fetches     *)
(*   SpecInc       main of 2c.py around crawl_incremental                   *)
(*   SpecIncFair   SpecInc with the fairness of its loop                    *)
(*   SpecDaily     stage 3 of the daily update                              *)
(*   SpecClassify  _looks_garbage_page on bounded title texts               *)
(*   SpecTitle     _find_first_text on bounded element texts                *)
(*   SpecInst      _extract_institutions on bounded pages                   *)
(*   SpecExtract   extract_detail_data of both crawlers on one page         *)
(*   SpecFault     extract_detail_data when Selenium calls raise            *)
(***************************************************************************)
EXTENDS Integers, Sequences, FiniteSets, TLC

VARIABLES
    \* ---- persistence shared by the full-backfill walker and save_final
    all_data,           \* self.all_data: the Records captured in this session
    csv_exists,         \* os.path.exists(self.csv_path)
    csv_rows,           \* rows of clinical_trials_full.csv, in file order
    last_sn_file,       \* last_clnc_test_sn.txt: 0 = no file, else the number in it
    save_state,         \* what the last save_final call did
    prev_exists,        \* history: csv_exists as the last save_final found it
    prev_rows,          \* history: csv_rows as the last save_final found them
    session,            \* number of the current session (tags the scraped rows)
    \* ---- crawl_years
    pc,                 \* position of the walker
    years,              \* list(sorted(set(years)))
    refresh_years,      \* refresh_years (a set; {} when None)
    year_missing_threshold,
    existing_sns,       \* identifiers read from the CSV when the session starts
    yi,                 \* index of the year being scanned
    sn,                 \* current identifier
    consecutive_missing,
    processed_in_year,
    success_count,
    fail_count,
    skip_count,
    backup_files,       \* backup_1c_<count>.csv files written by save_backup
    driver,             \* "none" | "live" | "quit"
    driver_setups,      \* number of setup_driver calls of the session
    probed,             \* history: the probes made, in order
    outcome,            \* how the session ended
    \* ---- main of 2c.py and crawl_incremental (with pc, sn, driver, probed, outcome)
    args_since_sn,      \* --since-sn, None when not given
    args_limit,         \* --limit, None when not given
    sheet_max_sn,       \* what get_max_sn_from_sheet returns
    since_sn,
    rows,               \* the Records crawl_incremental has collected
    misses,
    max_consecutive_miss,
    exit_code,          \* Unset until main returns; Interrupted when an interrupt ends it
    increment_csv,      \* rows of outputs/increment_<time>.csv, <<>> when not written
    \* ---- stage 3 of jobs/daily_update_2c.py
    daily_pc,
    ws_key_col,         \* whether row 1 of the worksheet has a cell "clncTestSn"
    ws_rows,            \* data rows of the worksheet, in sheet order
    ws_before,          \* history: the data rows when the run started
    clean_rows,         \* rows of the cleaned increment CSV
    read_result,        \* how get_existing_sns ended
    \* ---- the Page Classifier
    cls_pc,
    text,               \* the title text handed to _looks_garbage_page
    garbage,            \* its result
    \* ---- extract_detail_data and its helpers, on one loaded page
    ext_pc,
    candidates,         \* per title selector: the element's rendered text, or Missing
    fields,             \* the (key, value) pairs the three field extractors meet, in order
    roots,              \* institution containers and captioned tables of the page
    title,              \* what _find_first_text returns
    data_full,          \* what extract_detail_data of 1c_fixed.py returns
    data_inc,           \* what extract_detail_data of 2c.py returns
    faults,             \* the extraction steps in which Selenium raises on this page
    escaped,            \* the extractors an exception has left
    \* ---- the pinned endpoint and the fetches of a full-backfill session
    base_url,           \* self.base_url: the pinned endpoint
    cur_base,           \* the endpoint the last navigation ended at, NoEndpoint when
                        \* it failed
    fetch_event,        \* how the last fetch of a detail page went
    detect_runs,        \* number of detect_and_set_base_url calls of the session
    last_detect         \* what the last step's detect_and_set_base_url call found

persistVars == <<all_data, csv_exists, csv_rows, last_sn_file, save_state, session,
                 prev_exists, prev_rows>>
walkVars == <<pc, years, refresh_years, year_missing_threshold, existing_sns, yi, sn,
              consecutive_missing, processed_in_year, success_count, fail_count,
              skip_count, backup_files, driver, driver_setups, probed, outcome>>
incVars == <<args_since_sn, args_limit, sheet_max_sn, since_sn, rows, misses,
             max_consecutive_miss, exit_code, increment_csv>>
dailyVars == <<daily_pc, ws_key_col, ws_rows, ws_before, clean_rows, read_result>>
clsVars == <<cls_pc, text, garbage>>
extVars == <<ext_pc, candidates, fields, roots, title, data_full, data_inc, faults,
             escaped>>
fetchVars == <<base_url, cur_base, fetch_event, detect_runs, last_detect>>
vars == <<persistVars, walkVars, incVars, dailyVars, clsVars, extVars, fetchVars>>

\* the variables of the walker that crawl_incremental does not use
walkOnly == <<years, refresh_years, year_missing_threshold, existing_sns, yi,
              consecutive_missing, processed_in_year, success_count, fail_count,
              skip_count, backup_files>>

\* what the steps of one component leave alone (the steps of crawl_years say
\* nothing of fetchVars: Next leaves them alone, the steps of SpecFetch set them)
offMerge == <<walkVars, incVars, dailyVars, clsVars, extVars, fetchVars>>
offWalk == <<incVars, dailyVars, clsVars, extVars>>
offInc == <<persistVars, walkOnly, dailyVars, clsVars, extVars, fetchVars>>
offDaily == <<persistVars, walkVars, incVars, clsVars, extVars, fetchVars>>
offCls == <<persistVars, walkVars, incVars, dailyVars, extVars, fetchVars>>
offExt == <<persistVars, walkVars, incVars, dailyVars, clsVars, fetchVars>>

(***************************************************************************)
(* Identifiers as text.  The CSV and the Records hold the identifier as a  *)
(* decimal string (str(clnc_test_sn)); a string is a sequence of digits.   *)
(***************************************************************************)
RECURSIVE ToStr(_)
\* str(n) for n >= 0
ToStr(n) == IF n < 10 THEN <<n>> ELSE Append(ToStr(n \div 10), n % 10)

RECURSIVE ToNum(_)
\* pd.to_numeric / int() of a string of digits
ToNum(s) == IF s = <<>> THEN 0 ELSE 10 * ToNum(SubSeq(s, 1, Len(s) - 1)) + s[Len(s)]

\* a Record: the identifier string and the version of its fields (which session
\* scraped it; 0 for a row that was in the file before the first session)
Record(n, v) == [clncTestSn |-> ToStr(n), ver |-> v]

Range(s) == {s[i] : i \in 1..Len(s)}

SetMax(S) == IF S = {} THEN 0
             ELSE LET x == CHOOSE x \in S : \A y \in S : y <= x IN x

(***************************************************************************)
(* Bounds of the model.                                                    *)
(***************************************************************************)
MaxIds == 3             \* size of the identifier universe of SpecMerge
MaxNew == 2             \* most Records of one session in SpecMerge
MaxOld == 2             \* most rows of the CSV the first session finds
MaxSessions == 2        \* sessions run one after the other
BaseYear == 2020        \* first target year of a full-backfill session
MaxSpan == 2            \* a year's REAL pages lie among its first MaxSpan identifiers
MaxPersisted == 2       \* the CSV found at the start holds some of the first
                        \* MaxPersisted identifiers of BaseYear
MaxLowThreshold == 2    \* thresholds tried: 1..MaxLowThreshold, the default, default+1
ResumeFrom == 202500050 \* the resume identifier of an incremental session
MaxIncSpan == 5         \* REAL pages lie among the first MaxIncSpan identifiers probed
MaxLimit == 2           \* --limit values tried: 0..MaxLimit, and no limit
MaxDailyIds == 3        \* identifiers a daily update may meet, in the sheet or the CSV
MaxAtoms == 5           \* longest title text, in atoms
LowSheetMax == 3        \* a sheet maximum below the resume buffer
MaxTextAtoms == 3       \* longest rendered text of a title element, in atoms
MaxPresent == 2         \* the first MaxPresent title selectors may match an element
MaxTables == 2          \* most tables under one institution container
MaxRoots == 2           \* most institution containers and captioned tables of a page
MaxPairs == 2           \* most (key, value) pairs the field extractors meet
LongRunThreshold == 501 \* a threshold that lets one year pass 500 processed identifiers
HalfRunThreshold == 251 \* a threshold under which two years together pass 500

\* identifiers of SpecMerge: one-digit and two-digit numbers, so that the
\* order of the strings differs from the order of the numbers
MergeIds == 9 .. (9 + MaxIds - 1)

RECURSIVE SeqsUpTo(_, _)
\* all sequences over S of length at most n
SeqsUpTo(S, n) ==
    IF n = 0 THEN {<<>>}
    ELSE LET shorter == SeqsUpTo(S, n - 1)
         IN shorter \cup {Append(q, x) : q \in {r \in shorter : Len(r) = n - 1}, x \in S}

(***************************************************************************)
(* The Reconciler of the full backfill: ClinicalTrialCrawler.save_final.   *)
(***************************************************************************)
\* the concatenation with the persisted rows first
CombinedOldFirst(new, exists, old) == IF exists THEN old \o new ELSE new

\* pd.concat([new_df, existing_df]) when the CSV exists, else new_df
Combined(new, exists, old) == IF exists THEN new \o old ELSE new

\* the frame with no duplicate removed
DropNoRows(frame) == frame

RECURSIVE DropDuplicates(_)
\* drop_duplicates(subset='clncTestSn', keep='first'): the strings are compared
DropDuplicates(frame) ==
    IF frame = <<>> THEN <<>>
    ELSE LET init == DropDuplicates(SubSeq(frame, 1, Len(frame) - 1))
             last == frame[Len(frame)]
         IN IF \E i \in 1..Len(init) : init[i].clncTestSn = last.clncTestSn
            THEN init ELSE Append(init, last)

\* the sort key of a row: pd.to_numeric(clncTestSn)
SortKey(row) == ToNum(row.clncTestSn)

\* comparison of two digit strings as strings (what a sort of the str column does)
RECURSIVE StrLess(_, _)
StrLess(a, b) ==
    IF a = <<>> THEN b # <<>>
    ELSE IF b = <<>> THEN FALSE
    ELSE IF a[1] # b[1] THEN a[1] < b[1]
    ELSE StrLess(Tail(a), Tail(b))

\* r before q when the str column itself is the sort key
TextBefore(r, q) == StrLess(r.clncTestSn, q.clncTestSn)

\* r goes before q in the sorted frame
Before(r, q) == SortKey(r) < SortKey(q)

RECURSIVE InsertSorted(_, _)
InsertSorted(sorted, r) ==
    IF sorted = <<>> THEN <<r>>
    ELSE IF Before(r, sorted[1]) THEN <<r>> \o sorted
    ELSE <<sorted[1]>> \o InsertSorted(Tail(sorted), r)

RECURSIVE SortValues(_)
\* sort_values(by='clncTestSn_int', ascending=True): the keys are distinct after
\* drop_duplicates, so the result does not depend on the sort algorithm
SortValues(frame) ==
    IF frame = <<>> THEN <<>>
    ELSE InsertSorted(SortValues(SubSeq(frame, 1, Len(frame) - 1)), frame[Len(frame)])

\* the frame save_final writes to the CSV
MergedFrame(new, exists, old) == SortValues(DropDuplicates(Combined(new, exists, old)))

\* the maximum of the str column, as a number
MaxSnText(merged) ==
    IF merged = <<>> THEN 0
    ELSE LET top == CHOOSE r \in Range(merged) :
                        \A q \in Range(merged) : ~StrLess(r.clncTestSn, q.clncTestSn)
         IN ToNum(top.clncTestSn)

\* pd.to_numeric(combined_df['clncTestSn']).max()
MaxSn(merged) == SetMax({ToNum(merged[i].clncTestSn) : i \in 1..Len(merged)})

\* save_final, called with the files as they are.  res is what the environment
\* lets the writes do:
\*   "ok"       both files written
\*   "no_side"  CSV written, writing last_clnc_test_sn.txt raised (swallowed, l.369)
\*   "io_error" reading or writing the CSV raised: save_final raises, nothing written
SaveResults == {"ok", "no_side", "io_error"}

SaveFinal(res) ==
    /\ prev_exists' = csv_exists
    /\ prev_rows' = csv_rows
    /\ IF all_data = <<>>
       THEN /\ save_state' = "nothing"
            /\ UNCHANGED <<csv_exists, csv_rows, last_sn_file>>
       ELSE IF res = "io_error"
       THEN /\ save_state' = "failed"
            /\ UNCHANGED <<csv_exists, csv_rows, last_sn_file>>
       ELSE LET merged == MergedFrame(all_data, csv_exists, csv_rows)
            IN /\ csv_exists' = TRUE
               /\ csv_rows' = merged
               /\ last_sn_file' = IF res = "ok" THEN MaxSn(merged) ELSE last_sn_file
               /\ save_state' = IF res = "ok" THEN "saved" ELSE "saved_no_side"

\* Python's None where a number is expected, and an exit code not yet set
None == 0 - 1
Unset == 0 - 1
\* the exit status of a process ended by a KeyboardInterrupt (128 + SIGINT)
Interrupted == 128 + 2

\* values of the other components' variables while they do not run
IncIdle ==
    /\ args_since_sn = None /\ args_limit = None /\ sheet_max_sn = None
    /\ since_sn = 0 /\ rows = <<>> /\ misses = 0 /\ max_consecutive_miss = 0
    /\ exit_code = Unset /\ increment_csv = <<>>

DailyIdle ==
    /\ daily_pc = "idle" /\ ws_key_col = TRUE /\ ws_rows = <<>> /\ ws_before = <<>> /\ clean_rows = <<>>
    /\ read_result = "none"

ClsIdle == cls_pc = "idle" /\ text = <<>> /\ garbage = FALSE

\* candidate_bases[0], the value __init__ gives base_url (1c_fixed.py:38)
FirstCandidate == 1
\* no endpoint: the navigation failed
NoEndpoint == 0

FetchIdle ==
    /\ base_url = FirstCandidate /\ cur_base = NoEndpoint /\ fetch_event = "none"
    /\ detect_runs = 0 /\ last_detect = "none"

\* extract_detail_data returning None
NoData == [real |-> FALSE, title |-> <<>>, fields |-> <<>>, inst |-> <<>>]

ExtIdle ==
    /\ ext_pc = "idle" /\ candidates = <<>> /\ fields = <<>> /\ roots = <<>>
    /\ title = <<>> /\ data_full = NoData /\ data_inc = NoData
    /\ faults = {} /\ escaped = {}

PersistIdle ==
    /\ all_data = <<>> /\ csv_exists = FALSE /\ csv_rows = <<>> /\ last_sn_file = 0
    /\ save_state = "pending" /\ session = 1 /\ prev_exists = FALSE /\ prev_rows = <<>>

WalkOnlyIdle ==
    /\ years = <<>> /\ refresh_years = {} /\ year_missing_threshold = 0
    /\ existing_sns = {} /\ yi = 0 /\ consecutive_missing = 0
    /\ processed_in_year = 0 /\ success_count = 0 /\ fail_count = 0 /\ skip_count = 0
    /\ backup_files = {}

WalkIdle ==
    /\ pc = "idle" /\ years = <<>> /\ refresh_years = {} /\ year_missing_threshold = 0
    /\ existing_sns = {} /\ yi = 0 /\ sn = 0 /\ consecutive_missing = 0
    /\ processed_in_year = 0 /\ success_count = 0 /\ fail_count = 0 /\ skip_count = 0
    /\ backup_files = {}
    /\ driver = "none" /\ driver_setups = 0 /\ probed = <<>> /\ outcome = "none"

SessionRecords(ids, k, v) == {[i \in 1..Len(q) |-> Record(q[i], v)] : q \in SeqsUpTo(ids, k)}

MergeInit ==
    /\ session = 1
    /\ all_data \in SessionRecords(MergeIds, MaxNew, 1)
    /\ csv_exists \in BOOLEAN
    /\ csv_rows \in (IF csv_exists THEN SessionRecords(MergeIds, MaxOld, 0) ELSE {<<>>})
    /\ last_sn_file \in {0, MaxSn(csv_rows)}
    /\ save_state = "pending"
    /\ prev_exists = FALSE /\ prev_rows = <<>>
    /\ WalkIdle /\ IncIdle /\ DailyIdle /\ ClsIdle /\ ExtIdle /\ FetchIdle

\* one call of save_final at the end of a session
MergeSave ==
    /\ save_state = "pending"
    /\ \E res \in SaveResults : SaveFinal(res)
    /\ UNCHANGED <<all_data, session, offMerge>>

\* the next session: a new crawler object with its own captured Records
MergeNewSession ==
    /\ save_state # "pending"
    /\ session < MaxSessions
    /\ session' = session + 1
    /\ all_data' \in SessionRecords(MergeIds, MaxNew, session + 1)
    /\ save_state' = "pending"
    /\ UNCHANGED <<csv_exists, csv_rows, last_sn_file, prev_exists, prev_rows, offMerge>>

MergeNext == MergeSave \/ MergeNewSession

SpecMerge == MergeInit /\ [][MergeNext]_vars


(***************************************************************************)
(* The Range Walker of the full backfill: ClinicalTrialCrawler.crawl_years *)
(***************************************************************************)
YearSpan == 100000              \* identifiers per year
DefaultYearThreshold == 10      \* year_missing_threshold: int = 10
RecycleEvery == 10              \* consecutive_missing % 10 == 0
RestartEvery == 500             \* processed_in_year % 500 == 0
BackupEvery == 100              \* success_count % 100 == 0

\* the year's first identifier is Y*100000
StartAtYear(year) == year * YearSpan

start_sn(year) == year * YearSpan + 1
end_sn_exclusive(year) == (year + 1) * YearSpan

\* list(sorted(set(years)))
RECURSIVE SortedList(_)
SortedList(S) ==
    IF S = {} THEN <<>>
    ELSE LET m == CHOOSE x \in S : \A y \in S : x <= y
         IN <<m>> \o SortedList(S \ {m})

\* the year ends one miss late
ThresholdPassed(missing, threshold) == missing > threshold

\* consecutive_missing >= year_missing_threshold
ThresholdReached(missing, threshold) == missing >= threshold

\* every persisted identifier is skipped, refresh year or not
SkipPersisted(year, n, refresh, existing) == ToStr(n) \in existing

\* not (refresh_years and year in refresh_years) and (str(sn) in existing_sns)
SkipIdentifier(year, n, refresh, existing) ==
    /\ ~(refresh # {} /\ year \in refresh)
    /\ ToStr(n) \in existing

\* the recycle test sits after the if/else: a REAL probe, which sets the
\* counter to 0, passes it too
RecycleOutsideElse(wasMiss, missing, processed) ==
    (IF missing % RecycleEvery = 0 THEN 1 ELSE 0)
    + (IF processed > 0 /\ processed % RestartEvery = 0 THEN 1 ELSE 0)

\* only the recycle on misses
RecyclesOnly(wasMiss, missing, processed) ==
    IF wasMiss /\ missing % RecycleEvery = 0 THEN 1 ELSE 0

\* the driver restarts one iteration asks for: the recycle on misses (l.279) and
\* the restart every 500 processed identifiers (l.289)
Restarts(wasMiss, missing, processed) ==
    (IF wasMiss /\ missing % RecycleEvery = 0 THEN 1 ELSE 0)
    + (IF processed > 0 /\ processed % RestartEvery = 0 THEN 1 ELSE 0)

\* the walker's position after a step
Ctl(newYi, newSn, newMissing, newProcessed, newPc, newOutcome) ==
    /\ yi' = newYi
    /\ sn' = newSn
    /\ consecutive_missing' = newMissing
    /\ processed_in_year' = newProcessed
    /\ pc' = newPc
    /\ outcome' = newOutcome

\* the while loop of a year is left: the next year starts with fresh counters,
\* or the for loop is over and the finally block is next
YearOver(newSn, newMissing, newProcessed) ==
    IF yi < Len(years)
    THEN Ctl(yi + 1, start_sn(years[yi + 1]), 0, 0, "scan", outcome)
    ELSE Ctl(yi, newSn, newMissing, newProcessed, "finally", "completed")

\* sn += 1 and the while test
NextIdentifier(newMissing, newProcessed) ==
    IF sn + 1 < end_sn_exclusive(years[yi])
    THEN Ctl(yi, sn + 1, newMissing, newProcessed, "scan", outcome)
    ELSE YearOver(sn + 1, newMissing, newProcessed)

\* the try block sits inside the for loop: an exception ends only the year
RaisedLeavesYear(how, newMissing, newProcessed) ==
    IF yi >= 1 /\ yi < Len(years)
    THEN Ctl(yi + 1, start_sn(years[yi + 1]), 0, 0, "scan", how)
    ELSE Ctl(yi, sn, newMissing, newProcessed, "finally", how)

\* an exception or a KeyboardInterrupt leaves the try block
Raised(how, newMissing, newProcessed) ==
    Ctl(yi, sn, newMissing, newProcessed, "finally", how)

\* the rest of an iteration after the counters are updated: n driver restarts
\* (driver.quit(), setup_driver(), which may raise), the sleep, sn += 1
RestartAndGoOn(n, newMissing, newProcessed) ==
    IF n = 0
    THEN /\ NextIdentifier(newMissing, newProcessed)
         /\ UNCHANGED <<driver, driver_setups>>
    ELSE \E up \in 0..n :       \* the setup_driver calls that succeed
            /\ driver_setups' = driver_setups + (IF up = n THEN n ELSE up + 1)
            /\ IF up = n
               THEN driver' = "live" /\ NextIdentifier(newMissing, newProcessed)
               ELSE driver' = "quit" /\ Raised("error", newMissing, newProcessed)

WalkParams == <<years, refresh_years, year_missing_threshold, existing_sns>>

WalkInit ==
    /\ session = 1
    /\ all_data = <<>>
    /\ \E ids \in SUBSET {start_sn(BaseYear) + k : k \in 0..(MaxPersisted - 1)} :
          /\ csv_exists \in (IF ids = {} THEN BOOLEAN ELSE {TRUE})
          /\ csv_rows = [i \in 1..Cardinality(ids) |-> Record(SortedList(ids)[i], 0)]
    /\ last_sn_file \in {0, MaxSn(csv_rows)}
    /\ save_state = "pending"
    /\ prev_exists = FALSE /\ prev_rows = <<>>
    /\ pc = "start"
    /\ years \in {<<BaseYear>>, <<BaseYear, BaseYear + 1>>, <<BaseYear + 1, BaseYear, BaseYear>>}
    /\ refresh_years \in {{}, {BaseYear}}
    /\ year_missing_threshold \in
          (1..MaxLowThreshold) \cup {DefaultYearThreshold, DefaultYearThreshold + 1}
    /\ existing_sns = {} /\ yi = 0 /\ sn = 0 /\ consecutive_missing = 0
    /\ processed_in_year = 0 /\ success_count = 0 /\ fail_count = 0 /\ skip_count = 0
    /\ backup_files = {}
    /\ driver = "none" /\ driver_setups = 0 /\ probed = <<>> /\ outcome = "none"
    /\ IncIdle /\ DailyIdle /\ ClsIdle /\ ExtIdle /\ FetchIdle

\* crawl_years up to the first iteration: setup_driver, the normalisation of
\* the years and the read of the existing CSV
CrawlStart ==
    /\ pc = "start"
    /\ driver' = "live"
    /\ driver_setups' = driver_setups + 1
    /\ years' = SortedList(Range(years))
    /\ existing_sns' = IF csv_exists THEN {csv_rows[i].clncTestSn : i \in 1..Len(csv_rows)}
                       ELSE {}
    /\ Ctl(1, start_sn(years'[1]), 0, 0, "scan", outcome)
    /\ UNCHANGED <<refresh_years, year_missing_threshold, success_count, fail_count,
                   skip_count, backup_files, probed, persistVars, offWalk>>

\* setup_driver (webdriver.Chrome) or the read of the CSV raises before the
\* first year: except Exception, then the finally block
CrawlStartRaises ==
    /\ pc = "start"
    /\ \E started \in BOOLEAN :
          /\ driver' = IF started THEN "live" ELSE "none"
          /\ driver_setups' = driver_setups + 1
    /\ Raised("error", consecutive_missing, processed_in_year)
    /\ UNCHANGED <<WalkParams, success_count, fail_count, skip_count, backup_files,
                   probed, persistVars, offWalk>>

\* one iteration that steps over an identifier the CSV already holds
SkipStep ==
    /\ pc = "scan"
    /\ SkipIdentifier(years[yi], sn, refresh_years, existing_sns)
    /\ skip_count' = skip_count + 1
    /\ NextIdentifier(consecutive_missing, processed_in_year)
    /\ UNCHANGED <<WalkParams, success_count, fail_count, backup_files, driver,
                   driver_setups, probed, persistVars, offWalk>>

\* one iteration in which extract_detail_data returns a Record
ProbeReal ==
    /\ pc = "scan"
    /\ ~SkipIdentifier(years[yi], sn, refresh_years, existing_sns)
    /\ sn - start_sn(years[yi]) < MaxSpan
    /\ probed' = Append(probed, [sn |-> sn, res |-> "REAL"])
    /\ all_data' = Append(all_data, Record(sn, session))
    /\ success_count' = success_count + 1
    /\ IF (success_count + 1) % BackupEvery = 0
       THEN \* save_backup writes its file or raises
            \E written \in BOOLEAN :
               IF written
               THEN /\ backup_files' = backup_files \cup {success_count + 1}
                    /\ RestartAndGoOn(Restarts(FALSE, 0, processed_in_year + 1),
                                      0, processed_in_year + 1)
               ELSE /\ backup_files' = backup_files
                    /\ Raised("error", 0, processed_in_year + 1)
                    /\ UNCHANGED <<driver, driver_setups>>
       ELSE /\ backup_files' = backup_files
            /\ RestartAndGoOn(Restarts(FALSE, 0, processed_in_year + 1),
                              0, processed_in_year + 1)
    /\ UNCHANGED <<WalkParams, fail_count, skip_count, csv_exists, csv_rows,
                   last_sn_file, save_state, session, prev_exists, prev_rows, offWalk>>

\* one iteration in which extract_detail_data returns None: no page, a fetch
\* failure, a timeout, or a title the Page Classifier rejects
ProbeAbsent ==
    /\ pc = "scan"
    /\ ~SkipIdentifier(years[yi], sn, refresh_years, existing_sns)
    /\ probed' = Append(probed, [sn |-> sn, res |-> "ABSENT"])
    /\ fail_count' = fail_count + 1
    /\ IF ThresholdReached(consecutive_missing + 1, year_missing_threshold)
       THEN \* break
            /\ YearOver(sn, consecutive_missing + 1, processed_in_year + 1)
            /\ UNCHANGED <<driver, driver_setups>>
       ELSE RestartAndGoOn(Restarts(TRUE, consecutive_missing + 1, processed_in_year + 1),
                           consecutive_missing + 1, processed_in_year + 1)
    /\ UNCHANGED <<WalkParams, success_count, skip_count, backup_files, persistVars, offWalk>>

\* an exception that extract_detail_data does not handle, or a KeyboardInterrupt,
\* while an identifier is probed
ProbeRaises ==
    /\ pc = "scan"
    /\ ~SkipIdentifier(years[yi], sn, refresh_years, existing_sns)
    /\ \E how \in {"interrupt", "error"} :
          Raised(how, consecutive_missing, processed_in_year)
    /\ UNCHANGED <<WalkParams, success_count, fail_count, skip_count, backup_files,
                   driver, driver_setups, probed, persistVars, offWalk>>

\* the finally block: save_final when something was captured (an exception of
\* save_final is caught and printed), then driver.quit()
FinallyBlock ==
    /\ pc = "finally"
    /\ \E res \in SaveResults : SaveFinal(res)
    /\ driver' = IF driver = "live" THEN "quit" ELSE driver
    /\ pc' = "done"
    /\ UNCHANGED <<all_data, session, WalkParams, yi, sn, consecutive_missing,
                   processed_in_year, success_count, fail_count, skip_count,
                   backup_files, driver_setups, probed, outcome, offWalk>>

\* crawl_years with the pinned endpoint and the fetch events left out
Next ==
    \/ CrawlStart /\ UNCHANGED fetchVars
    \/ CrawlStartRaises /\ UNCHANGED fetchVars
    \/ SkipStep /\ UNCHANGED fetchVars
    \/ ProbeReal /\ UNCHANGED fetchVars
    \/ ProbeAbsent /\ UNCHANGED fetchVars
    \/ ProbeRaises /\ UNCHANGED fetchVars
    \/ FinallyBlock /\ UNCHANGED fetchVars

Spec == WalkInit /\ [][Next]_vars

\* sessions long enough for the restart every 500 processed identifiers: one
\* year under a threshold above 500, or two years under a threshold above 250
LongInit ==
    /\ session = 1
    /\ all_data = <<>>
    /\ \/ /\ years = <<BaseYear>>
          /\ year_missing_threshold = LongRunThreshold
          /\ csv_exists \in BOOLEAN
          /\ csv_rows = IF csv_exists THEN <<Record(start_sn(BaseYear), 0)>> ELSE <<>>
       \/ /\ years = <<BaseYear, BaseYear + 1>>
          /\ year_missing_threshold = HalfRunThreshold
          /\ csv_exists = FALSE
          /\ csv_rows = <<>>
    /\ last_sn_file = MaxSn(csv_rows)
    /\ save_state = "pending"
    /\ prev_exists = FALSE /\ prev_rows = <<>>
    /\ pc = "start"
    /\ refresh_years = {}
    /\ existing_sns = {} /\ yi = 0 /\ sn = 0 /\ consecutive_missing = 0
    /\ processed_in_year = 0 /\ success_count = 0 /\ fail_count = 0 /\ skip_count = 0
    /\ backup_files = {}
    /\ driver = "none" /\ driver_setups = 0 /\ probed = <<>> /\ outcome = "none"
    /\ IncIdle /\ DailyIdle /\ ClsIdle /\ ExtIdle /\ FetchIdle

SpecLong == LongInit /\ [][Next]_vars

(***************************************************************************)
(* The pinned endpoint of a full-backfill session: detect_and_set_base_url  *)
(* (called by every setup_driver) and the navigation of                    *)
(* extract_detail_data, laid over the steps of crawl_years.  An endpoint is *)
(* a number: 1..NumCandidates are candidate_bases in their order, the      *)
(* others are hosts outside the list that a redirect may lead to.          *)
(***************************************************************************)
NumCandidates == 2              \* len(self.candidate_bases)
MaxEndpoints == 3               \* the candidates and the other hosts a page may end at

CandidateBases == 1..NumCandidates
Endpoints == 1..MaxEndpoints

\* the first candidate of the list that responds
FirstResponding(responding) == CHOOSE c \in responding : \A e \in responding : c <= e

\* detect_and_set_base_url on a fetcher pinned to base, when the candidates in
\* responding answer the probe identifier's page and landed[c] is the host the
\* page of candidate c ends at: the pinned endpoint afterwards
detect_and_set_base_url(base, responding, landed) ==
    IF responding = {} THEN base ELSE landed[FirstResponding(responding)]

\* what one call may give on a fetcher pinned to base
DetectOutcomes(base) ==
    {[base |-> detect_and_set_base_url(base, r, l),
      last |-> IF r = {} THEN "no_response" ELSE "found"] :
        r \in SUBSET CandidateBases, l \in [CandidateBases -> Endpoints]}

RECURSIVE AfterSetups(_, _)
\* what d calls in a row may give
AfterSetups(d, base) ==
    IF d = 0 THEN {[base |-> base, last |-> "none"]}
    ELSE UNION {DetectOutcomes(x.base) : x \in AfterSetups(d - 1, base)}

\* the redirect is seen and the pinned endpoint is left as it is
KeepPinned(base, cur) == base

\* if cur_base != self.base_url: self.base_url = cur_base
Repin(base, cur) == IF cur # base THEN cur ELSE base

\* the setup_driver calls of the step that got as far as detect_and_set_base_url
SetupsDone ==
    IF driver' = "live" THEN driver_setups' - driver_setups
    ELSE IF driver_setups' > driver_setups THEN driver_setups' - driver_setups - 1
    ELSE 0

\* the fetch of a step: the navigation ended at host (NoEndpoint when driver.get
\* raised), then d calls of setup_driver reached detect_and_set_base_url
Fetched(event, host, d) ==
    /\ fetch_event' = event
    /\ cur_base' = host
    /\ detect_runs' = detect_runs + d
    /\ \E o \in AfterSetups(d, IF host = NoEndpoint THEN base_url ELSE Repin(base_url, host)) :
          /\ base_url' = o.base
          /\ last_detect' = o.last

\* one year, with or without its first identifier in the CSV, under a low
\* threshold or one that lets the 10th miss recycle the fetcher
FetchInit ==
    /\ session = 1
    /\ all_data = <<>>
    /\ csv_exists \in BOOLEAN
    /\ csv_rows = IF csv_exists THEN <<Record(start_sn(BaseYear), 0)>> ELSE <<>>
    /\ last_sn_file = MaxSn(csv_rows)
    /\ save_state = "pending"
    /\ prev_exists = FALSE /\ prev_rows = <<>>
    /\ pc = "start"
    /\ years = <<BaseYear>>
    /\ refresh_years = {}
    /\ year_missing_threshold \in {MaxLowThreshold, DefaultYearThreshold + 1}
    /\ existing_sns = {} /\ yi = 0 /\ sn = 0 /\ consecutive_missing = 0
    /\ processed_in_year = 0 /\ success_count = 0 /\ fail_count = 0 /\ skip_count = 0
    /\ backup_files = {}
    /\ driver = "none" /\ driver_setups = 0 /\ probed = <<>> /\ outcome = "none"
    /\ IncIdle /\ DailyIdle /\ ClsIdle /\ ExtIdle /\ FetchIdle

\* setup_driver at the start of crawl_years
FetchStart ==
    /\ CrawlStart
    /\ Fetched(fetch_event, cur_base, 1)

\* webdriver.Chrome or set_page_load_timeout raises (no detection), or the read
\* of the CSV raises after setup_driver has returned
FetchStartRaises ==
    /\ CrawlStartRaises
    /\ \E d \in (IF driver' = "live" THEN {0, 1} ELSE {0}) : Fetched(fetch_event, cur_base, d)

FetchSkip ==
    /\ SkipStep
    /\ UNCHANGED fetchVars

\* the page loads, the body is there, the title is found and accepted
FetchReal ==
    /\ ProbeReal
    /\ \E host \in Endpoints : Fetched("ok", host, SetupsDone)

\* extract_detail_data returns None: driver.get raised (l.145-147), the wait for
\* the body timed out (l.153-155), or no title the Page Classifier accepts
FetchAbsent ==
    /\ ProbeAbsent
    /\ \/ Fetched("nav_failed", NoEndpoint, SetupsDone)
       \/ \E host \in Endpoints, ev \in {"wait_timeout", "no_title"} :
             Fetched(ev, host, SetupsDone)

\* an exception leaves extract_detail_data: the wait for the body raised
\* something other than TimeoutException (l.149-153 catches that one only), or
\* _extract_institutions raised; or an interrupt arrives
FetchRaises ==
    /\ ProbeRaises
    /\ \E host \in Endpoints, ev \in {"wait_failed", "extract_raised", "interrupt"} :
          /\ (ev = "interrupt") <=> (outcome' = "interrupt")
          /\ Fetched(ev, host, 0)

FetchFinally ==
    /\ FinallyBlock
    /\ UNCHANGED fetchVars

FetchNext ==
    \/ FetchStart
    \/ FetchStartRaises
    \/ FetchSkip
    \/ FetchReal
    \/ FetchAbsent
    \/ FetchRaises
    \/ FetchFinally

SpecFetch == FetchInit /\ [][FetchNext]_vars

(***************************************************************************)
(* The incremental Range Walker: main of crawler/2c.py around              *)
(* IncrementalClinicalTrialCrawler.crawl_incremental.                      *)
(***************************************************************************)
DefaultMaxMiss == 20            \* config.get("max_consecutive_miss", 20)
SinceSnBuffer == 10             \* config.get("since_sn_buffer", 10)

\* the walk resumes at the sheet's maximum itself
SinceAtMax(maxSn) == maxSn

\* max(0, max_sn - crawler.since_sn_buffer)
SinceFromSheet(maxSn) == IF maxSn - SinceSnBuffer > 0 THEN maxSn - SinceSnBuffer ELSE 0

\* the limit is tested one Record late
LimitPassed(collected, limit) == limit # None /\ Len(collected) > limit

\* the walk stops one miss late
MissesPassed(m, threshold) == m > threshold

\* misses >= self.max_consecutive_miss
MissesReached(m, threshold) == m >= threshold

\* limit is not None and len(rows) >= limit
LimitReached(collected, limit) == limit # None /\ Len(collected) >= limit

IncInit ==
    /\ pc = "main"
    /\ args_since_sn \in {None, ResumeFrom}
    /\ sheet_max_sn \in {None, LowSheetMax, ResumeFrom + SinceSnBuffer}
    /\ args_limit \in {None} \cup (0..MaxLimit)
    /\ max_consecutive_miss \in (1..MaxLowThreshold) \cup {DefaultMaxMiss}
    /\ since_sn = 0 /\ rows = <<>> /\ misses = 0
    /\ exit_code = Unset /\ increment_csv = <<>>
    /\ sn = 0 /\ driver = "none" /\ driver_setups = 0 /\ probed = <<>> /\ outcome = "none"
    /\ PersistIdle /\ WalkOnlyIdle /\ DailyIdle /\ ClsIdle /\ ExtIdle /\ FetchIdle

IncParams == <<args_since_sn, args_limit, sheet_max_sn, max_consecutive_miss>>

\* main: the constructor raises (the config cannot be read), or no --since-sn is
\* given and the sheet yields no maximum: return 1
MainNoStart ==
    /\ pc = "main"
    /\ \/ outcome' = "config_error"
       \/ args_since_sn = None /\ sheet_max_sn = None /\ outcome' = "no_since_sn"
    /\ exit_code' = 1
    /\ pc' = "done"
    /\ UNCHANGED <<IncParams, since_sn, rows, misses, increment_csv, sn, driver,
                   driver_setups, probed, offInc>>

\* the resume identifier main passes to crawl_incremental
ResumePoint == IF args_since_sn # None THEN args_since_sn ELSE SinceFromSheet(sheet_max_sn)

\* main up to the first iteration of crawl_incremental: the resume identifier,
\* rows = [], misses = 0, sn = since_sn + 1, setup_driver
MainStart ==
    /\ pc = "main"
    /\ args_since_sn # None \/ sheet_max_sn # None
    /\ since_sn' = ResumePoint
    /\ rows' = <<>>
    /\ misses' = 0
    /\ sn' = ResumePoint + 1
    /\ driver' = "live"
    /\ driver_setups' = driver_setups + 1
    /\ pc' = "scan_inc"
    /\ UNCHANGED <<IncParams, exit_code, increment_csv, probed, outcome, offInc>>

\* setup_driver raises: it runs before the try block of crawl_incremental, so
\* the exception goes to main's except Exception: return 1
MainSetupRaises ==
    /\ pc = "main"
    /\ args_since_sn # None \/ sheet_max_sn # None
    /\ since_sn' = ResumePoint
    /\ sn' = ResumePoint + 1
    /\ \E started \in BOOLEAN : driver' = IF started THEN "live" ELSE "none"
    /\ driver_setups' = driver_setups + 1
    /\ outcome' = "error"
    /\ exit_code' = 1
    /\ pc' = "done"
    /\ UNCHANGED <<IncParams, rows, misses, increment_csv, probed, offInc>>

\* crawl_incremental returns rows to main: its finally block quits the driver,
\* then main saves the rows (save_to_csv may raise: return 1) and returns 0, or
\* returns 1 when there are none
ReturnRows ==
    /\ driver' = "quit"
    /\ outcome' = "completed"
    /\ pc' = "done"
    /\ IF rows # <<>>
       THEN \E written \in BOOLEAN :
               /\ increment_csv' = IF written THEN rows ELSE increment_csv
               /\ exit_code' = IF written THEN 0 ELSE 1
       ELSE /\ increment_csv' = increment_csv
            /\ exit_code' = 1

\* the limit test at the top of the loop breaks
IncLimitReached ==
    /\ pc = "scan_inc"
    /\ LimitReached(rows, args_limit)
    /\ ReturnRows
    /\ UNCHANGED <<IncParams, since_sn, rows, misses, sn, driver_setups, probed, offInc>>

\* one iteration in which extract_detail_data returns a Record
IncProbeReal ==
    /\ pc = "scan_inc"
    /\ ~LimitReached(rows, args_limit)
    /\ sn - since_sn <= MaxIncSpan
    /\ probed' = Append(probed, [sn |-> sn, res |-> "REAL"])
    /\ rows' = Append(rows, Record(sn, 1))
    /\ misses' = 0
    /\ sn' = sn + 1
    /\ UNCHANGED <<IncParams, since_sn, exit_code, increment_csv, pc, driver,
                   driver_setups, outcome, offInc>>

\* one iteration in which extract_detail_data returns None
IncProbeAbsent ==
    /\ pc = "scan_inc"
    /\ ~LimitReached(rows, args_limit)
    /\ probed' = Append(probed, [sn |-> sn, res |-> "ABSENT"])
    /\ misses' = misses + 1
    /\ IF MissesReached(misses + 1, max_consecutive_miss)
       THEN \* break
            /\ ReturnRows
            /\ sn' = sn
       ELSE /\ sn' = sn + 1
            /\ UNCHANGED <<pc, driver, outcome, exit_code, increment_csv>>
    /\ UNCHANGED <<IncParams, since_sn, rows, driver_setups, offInc>>

\* an exception that extract_detail_data does not handle, or a KeyboardInterrupt,
\* while an identifier is probed.  crawl_incremental has no except clause: its
\* finally block quits the driver and the exception leaves it, rows is not
\* returned.  main catches Exception and returns 1; a KeyboardInterrupt is no
\* Exception and ends the process.
IncProbeRaises ==
    /\ pc = "scan_inc"
    /\ ~LimitReached(rows, args_limit)
    /\ \E how \in {"interrupt", "error"} :
          /\ outcome' = how
          /\ exit_code' = IF how = "error" THEN 1 ELSE Interrupted
    /\ driver' = "quit"
    /\ pc' = "done"
    /\ UNCHANGED <<IncParams, since_sn, rows, misses, increment_csv, sn, driver_setups,
                   probed, offInc>>

IncNext ==
    \/ MainNoStart
    \/ MainStart
    \/ MainSetupRaises
    \/ IncLimitReached
    \/ IncProbeReal
    \/ IncProbeAbsent
    \/ IncProbeRaises

SpecInc == IncInit /\ [][IncNext]_vars

\* the loop of crawl_incremental is sequential and every fetch returns (the page
\* load and the waits have timeouts): an iteration that can run does run
SpecIncFair == IncInit /\ [][IncNext]_vars /\ WF_vars(IncNext)

(***************************************************************************)
(* Stage 3 of the daily update: main of jobs/daily_update_2c.py with       *)
(* get_existing_sns, append_new_rows and sort_worksheet_by_clnc_sn.        *)
(***************************************************************************)
DailyIds == {ResumeFrom + k : k \in 1..MaxDailyIds}

\* the rows of the frame in ascending order of their identifiers, one per identifier
AscendingRows(ids, v) == [i \in 1..Cardinality(ids) |-> Record(SortedList(ids)[i], v)]

\* get_existing_sns: the stripped values of the key column; the empty set when
\* the header has no such cell ("no_key_col") or the read raises ("error")
get_existing_sns(result, sheet) ==
    IF result = "ok" THEN {sheet[i].clncTestSn : i \in 1..Len(sheet)} ELSE {}

\* the filter of main: sn and sn not in existing_sns
NewRows(cleaned, existing) ==
    SelectSeq(cleaned, LAMBDA r : r.clncTestSn # <<>> /\ r.clncTestSn \notin existing)

RECURSIVE InsertByText(_, _)
InsertByText(sorted, r) ==
    IF sorted = <<>> THEN <<r>>
    ELSE IF TextBefore(r, sorted[1]) THEN <<r>> \o sorted
    ELSE <<sorted[1]>> \o InsertByText(Tail(sorted), r)

RECURSIVE SortSheet(_)
\* ws.sort on column 1, whose cells are text (value_input_option="RAW")
SortSheet(sheet) ==
    IF sheet = <<>> THEN <<>>
    ELSE InsertByText(SortSheet(SubSeq(sheet, 1, Len(sheet) - 1)), sheet[Len(sheet)])

DailyInit ==
    /\ daily_pc = "stage3"
    /\ ws_key_col \in BOOLEAN
    /\ \E ids \in SUBSET DailyIds : ws_rows = AscendingRows(ids, 0)
    /\ ws_before = ws_rows
    /\ \E ids \in SUBSET DailyIds : clean_rows = AscendingRows(ids, 1)
    /\ read_result = "none"
    /\ PersistIdle /\ WalkIdle /\ IncIdle /\ ClsIdle /\ ExtIdle /\ FetchIdle

\* stage 3: the existing identifiers are read, the rows of the cleaned CSV that
\* are not among them are appended, and the sheet is sorted (a failure of the
\* sort is caught and printed)
DailyStage3 ==
    /\ daily_pc = "stage3"
    /\ \E result \in {"ok", "no_key_col", "error"}, sorts \in BOOLEAN :
          /\ result = "ok" => ws_key_col
          /\ result = "no_key_col" => ~ws_key_col
          /\ read_result' = result
          /\ LET new_rows == NewRows(clean_rows, get_existing_sns(result, ws_rows))
             IN ws_rows' = IF new_rows = <<>> THEN ws_rows
                           ELSE IF sorts THEN SortSheet(ws_rows \o new_rows)
                           ELSE ws_rows \o new_rows
    /\ daily_pc' = "done"
    /\ UNCHANGED <<ws_key_col, ws_before, clean_rows, offDaily>>

\* stage 3 ends with an exception (the worksheet cannot be opened, or
\* append_rows raises): main returns 1 and the sheet is as it was
DailyStage3Raises ==
    /\ daily_pc = "stage3"
    /\ read_result' \in {"ok", "error"}
    /\ read_result' = "ok" => ws_key_col
    /\ daily_pc' = "failed"
    /\ UNCHANGED <<ws_key_col, ws_rows, ws_before, clean_rows, offDaily>>

DailyNext == DailyStage3 \/ DailyStage3Raises

SpecDaily == DailyInit /\ [][DailyNext]_vars

(***************************************************************************)
(* The Page Classifier: _looks_garbage_page (the same code in 1c_fixed.py  *)
(* and 2c.py).  A text is a sequence of atoms: "sp" a space, "cm" a comma,  *)
(* "x150" a run of 150 other characters, and the words of the phrases:     *)
(*   imsang 임상시험, jeongbo 정보, sikyak 식약처, seungin 승인, mokrok 목록,      *)
(*   euro 으로, uiyakpum 의약품, silsi 실시기관, daesangja 대상자, seonjeong 선정, *)
(*   jeoe 제외, gijun 기준, yeongu 연구설계, mit 및, suhaeng 수행방법,            *)
(*   choecho 최초, saram 사람대상, yeobu 연구여부                               *)
(***************************************************************************)
LengthCeiling == 300            \* len(t) > 300
MinHits == 2                    \* hit >= 2

\* number of characters of an atom
AtomLen(a) ==
    CASE a \in {"sp", "cm", "mit", "nl"} -> 1
      [] a = "x150" -> 150
      [] a = "x300" -> 300
      [] a \in {"jeongbo", "seungin", "mokrok", "euro", "seonjeong", "jeoe", "gijun",
                "choecho"} -> 2
      [] a \in {"sikyak", "uiyakpum", "daesangja"} -> 3
      [] OTHER -> 4

RECURSIVE CharLen(_)
\* len(t)
CharLen(t) == IF t = <<>> THEN 0 ELSE AtomLen(t[1]) + CharLen(Tail(t))

bad_keys == <<
    <<"imsang", "sp", "jeongbo">>,
    <<"sikyak", "sp", "seungin", "sp", "mokrok">>,
    <<"mokrok", "euro">>,
    <<"uiyakpum", "sp", "jeongbo">>,
    <<"silsi", "sp", "jeongbo">>,
    <<"daesangja", "sp", "seonjeong", "gijun">>,
    <<"daesangja", "sp", "jeoe", "gijun">>,
    <<"yeongu", "sp", "mit", "sp", "suhaeng">>,
    <<"choecho", "sp", "saram", "sp", "yeobu">> >>

\* k in t
Contains(k, t) ==
    \E i \in 0..(Len(t) - Len(k)) : \A j \in 1..Len(k) : t[i + j] = k[j]

\* text.replace(",", " ")
ReplaceCommas(t) == [i \in 1..Len(t) |-> IF t[i] = "cm" THEN "sp" ELSE t[i]]

RECURSIVE StripLeft(_)
StripLeft(t) == IF t # <<>> /\ t[1] = "sp" THEN StripLeft(Tail(t)) ELSE t

RECURSIVE StripRight(_)
StripRight(t) ==
    IF t # <<>> /\ t[Len(t)] = "sp" THEN StripRight(SubSeq(t, 1, Len(t) - 1)) ELSE t

\* .strip()
Strip(t) == StripRight(StripLeft(t))

\* sum(1 for k in bad_keys if k in t)
Hits(t) == Cardinality({k \in 1..Len(bad_keys) : Contains(bad_keys[k], t)})

\* hit >= 2
EnoughHits(hit) == hit >= MinHits

\* the ceiling itself counts as too long
AtCeiling(t) == CharLen(t) >= LengthCeiling

\* len(t) > 300
TooLong(t) == CharLen(t) > LengthCeiling

_looks_garbage_page(txt) ==
    IF txt = <<>> THEN TRUE
    ELSE LET t == Strip(ReplaceCommas(txt))
         IN IF EnoughHits(Hits(t)) THEN TRUE
            ELSE IF TooLong(t) THEN TRUE
            ELSE FALSE

TitleAtoms == {"sp", "cm", "x150", "imsang", "jeongbo", "mokrok", "euro"}

ClsInit ==
    /\ cls_pc = "call"
    /\ text \in SeqsUpTo(TitleAtoms, MaxAtoms)
    /\ garbage = FALSE
    /\ PersistIdle /\ WalkIdle /\ IncIdle /\ DailyIdle /\ ExtIdle /\ FetchIdle

\* one call of _looks_garbage_page(text)
Classify ==
    /\ cls_pc = "call"
    /\ garbage' = _looks_garbage_page(text)
    /\ cls_pc' = "done"
    /\ UNCHANGED <<text, offCls>>

ClsNext == Classify

SpecClassify == ClsInit /\ [][ClsNext]_vars

(***************************************************************************)
(* Title extraction: _get_text_safe and _find_first_text (the same code in  *)
(* 1c_fixed.py and 2c.py).  The rendered text of an element is a sequence   *)
(* of atoms: "x300" a run of 300 characters that are no whitespace, "nl" a  *)
(* line break, "sp" a space.                                               *)
(***************************************************************************)
NumSelectors == 6               \* the candidates extract_detail_data passes
TitleCeiling == 500             \* len(text) > 500

\* find_element raises NoSuchElementException
Missing == <<"missing">>

IsSpace(a) == a \in {"sp", "nl"}

RECURSIVE StripWsLeft(_)
StripWsLeft(t) == IF t # <<>> /\ IsSpace(t[1]) THEN StripWsLeft(Tail(t)) ELSE t

RECURSIVE StripWsRight(_)
StripWsRight(t) ==
    IF t # <<>> /\ IsSpace(t[Len(t)]) THEN StripWsRight(SubSeq(t, 1, Len(t) - 1)) ELSE t

\* str.strip(): every kind of whitespace goes, line breaks included
StripWs(t) == StripWsRight(StripWsLeft(t))

RECURSIVE CollapseWs(_)
\* re.sub(r"\s+", " ", t)
CollapseWs(t) ==
    IF t = <<>> THEN <<>>
    ELSE IF IsSpace(t[1])
         THEN <<"sp">> \o CollapseWs(StripWsLeft(t))
         ELSE <<t[1]>> \o CollapseWs(Tail(t))

_get_text_safe(el) == CollapseWs(StripWs(el))

RECURSIVE BeforeLineBreak(_)
\* text.split("\n", 1)[0]
BeforeLineBreak(t) ==
    IF t = <<>> \/ t[1] = "nl" THEN <<>> ELSE <<t[1]>> \o BeforeLineBreak(Tail(t))

RECURSIVE _find_first_text(_)
_find_first_text(cands) ==
    IF cands = <<>> THEN <<>>
    ELSE IF cands[1] = Missing THEN _find_first_text(Tail(cands))
    ELSE LET txt == _get_text_safe(cands[1])
             first_line == StripWs(BeforeLineBreak(txt))
         IN IF txt = <<>> THEN _find_first_text(Tail(cands))
            ELSE IF CharLen(txt) > TitleCeiling /\ "nl" \in Range(txt) /\ first_line # <<>>
                 THEN first_line
                 ELSE txt

ElementAtoms == {"x300", "nl"}
ElementTexts == SeqsUpTo(ElementAtoms, MaxTextAtoms) \cup {Missing}

\* the elements a page has for the title selectors, in the order of the list
CandidateLists ==
    {[i \in 1..NumSelectors |-> IF i <= MaxPresent THEN c[i] ELSE Missing] :
        c \in [1..MaxPresent -> ElementTexts]}

TitleInit ==
    /\ ext_pc = "find_title"
    /\ candidates \in CandidateLists
    /\ fields = <<>> /\ roots = <<>>
    /\ title = <<>> /\ data_full = NoData /\ data_inc = NoData
    /\ faults = {} /\ escaped = {}
    /\ PersistIdle /\ WalkIdle /\ IncIdle /\ DailyIdle /\ ClsIdle /\ FetchIdle

\* one call of _find_first_text on the loaded page
FindTitle ==
    /\ ext_pc = "find_title"
    /\ title' = _find_first_text(candidates)
    /\ ext_pc' = "titled"
    /\ UNCHANGED <<candidates, fields, roots, data_full, data_inc, faults, escaped, offExt>>

TitleNext == FindTitle

SpecTitle == TitleInit /\ [][TitleNext]_vars

(***************************************************************************)
(* The Institution Sub-Extractor: _extract_institutions of 1c_fixed.py and *)
(* of 2c.py.  A root is an element whose tables are scanned: a container   *)
(* matched by "#tab2", "#tab02" or "section.institution, .institution,     *)
(* .org-list", or a table whose caption holds 실시기관 (the backup scan of    *)
(* 1c_fixed.py).  A table is the number of its rows that have a first cell *)
(* with text; the other rows are stepped over.                             *)
(***************************************************************************)
max_rows == 30                  \* max_rows: int = 30

\* if idx > start_idx + max_rows - 1: return idx
CapReached(idx, start_idx) == idx > start_idx + max_rows - 1

\* data[f"실시기관{idx}"] = name, with the row it was read from
Entry(idx, r, t, k) == [idx |-> idx, root |-> r, table |-> t, row |-> k]

RECURSIVE ScanFrom(_, _, _, _, _, _)
\* _scan_tables from row k of table t on: the entries written and the idx returned
ScanFrom(r, tables, t, k, idx, start_idx) ==
    IF t > Len(tables) THEN [entries |-> <<>>, idx |-> idx]
    ELSE IF k > tables[t] THEN ScanFrom(r, tables, t + 1, 1, idx, start_idx)
    ELSE IF CapReached(idx + 1, start_idx)
         THEN [entries |-> <<Entry(idx, r, t, k)>>, idx |-> idx + 1]
         ELSE LET rest == ScanFrom(r, tables, t, k + 1, idx + 1, start_idx)
              IN [entries |-> <<Entry(idx, r, t, k)>> \o rest.entries, idx |-> rest.idx]

\* _scan_tables(root, start_idx)
_scan_tables(rts, r, start_idx) == ScanFrom(r, rts[r].tables, 1, 1, start_idx, start_idx)

RECURSIVE ScanRoots(_, _, _)
\* for c in ...: next_idx = _scan_tables(c, next_idx); if next_idx > max_rows: return
ScanRoots(rts, which, next_idx) ==
    IF which = <<>> THEN [entries |-> <<>>, idx |-> next_idx, returned |-> FALSE]
    ELSE LET one == _scan_tables(rts, which[1], next_idx)
         IN IF one.idx > max_rows
            THEN [entries |-> one.entries, idx |-> one.idx, returned |-> TRUE]
            ELSE LET rest == ScanRoots(rts, Tail(which), one.idx)
                 IN [entries |-> one.entries \o rest.entries, idx |-> rest.idx,
                     returned |-> rest.returned]

\* the roots of one kind, in page order
RootsOf(rts, kind) == SelectSeq([i \in 1..Len(rts) |-> i], LAMBDA i : rts[i].kind = kind)

\* _extract_institutions of 1c_fixed.py: the containers, then the backup scan
extract_institutions_full(rts) ==
    LET c == ScanRoots(rts, RootsOf(rts, "container"), 1)
    IN IF c.returned THEN c.entries
       ELSE c.entries \o ScanRoots(rts, RootsOf(rts, "captioned"), c.idx).entries

\* _extract_institutions of 2c.py: the containers only
extract_institutions_inc(rts) == ScanRoots(rts, RootsOf(rts, "container"), 1).entries

RowCounts == {max_rows - 1, max_rows + 5}
TableLists == SeqsUpTo(RowCounts, MaxTables)
Roots == [kind : {"container", "captioned"}, tables : TableLists]
RootLists == SeqsUpTo(Roots, MaxRoots)

InstInit ==
    /\ ext_pc = "institutions"
    /\ roots \in RootLists
    /\ candidates = <<>> /\ fields = <<>>
    /\ title = <<>> /\ data_full = NoData /\ data_inc = NoData
    /\ faults = {} /\ escaped = {}
    /\ PersistIdle /\ WalkIdle /\ IncIdle /\ DailyIdle /\ ClsIdle /\ FetchIdle

\* self._extract_institutions(data) in 1c_fixed.py
InstFull ==
    /\ ext_pc = "institutions"
    /\ data_full' = [data_full EXCEPT !.real = TRUE, !.inst = extract_institutions_full(roots)]
    /\ ext_pc' = "done"
    /\ UNCHANGED <<candidates, fields, roots, title, data_inc, faults, escaped, offExt>>

\* self._extract_institutions(data) in 2c.py
InstInc ==
    /\ ext_pc = "institutions"
    /\ data_inc' = [data_inc EXCEPT !.real = TRUE, !.inst = extract_institutions_inc(roots)]
    /\ ext_pc' = "done"
    /\ UNCHANGED <<candidates, fields, roots, title, data_full, faults, escaped, offExt>>

InstNext == InstFull \/ InstInc

SpecInst == InstInit /\ [][InstNext]_vars

(***************************************************************************)
(* extract_detail_data of 1c_fixed.py and of 2c.py on one loaded page.     *)
(***************************************************************************)
\* the key of the title, which the field extractors never write
TitleKey == "imsangsiheommyeong"

\* the key exclusion is missing: if key and val: data[key] = val
PutAnyField(data, pair) ==
    IF pair[1] # "" /\ pair[2] # ""
    THEN {q \in data : q[1] # pair[1]} \cup {pair}
    ELSE data

\* if key and val and key not in ("임상시험명",): data[key] = val
PutField(data, pair) ==
    IF pair[1] # "" /\ pair[2] # "" /\ pair[1] # TitleKey
    THEN {q \in data : q[1] # pair[1]} \cup {pair}
    ELSE data

RECURSIVE PutFields(_, _)
\* _extract_from_txt_groups, _extract_from_tables, _extract_from_definition_lists
PutFields(data, pairs) ==
    IF pairs = <<>> THEN data ELSE PutFields(PutField(data, pairs[1]), Tail(pairs))

\* what both extractors do before the institutions
Extracted(cands, pairs, insts) ==
    LET t == _find_first_text(cands)
    IN IF t = <<>> \/ _looks_garbage_page(t) THEN NoData
       ELSE [real |-> TRUE, title |-> t, fields |-> PutFields({}, pairs), inst |-> insts]

extract_detail_data_full(cands, pairs, rts) ==
    Extracted(cands, pairs, extract_institutions_full(rts))

extract_detail_data_inc(cands, pairs, rts) ==
    Extracted(cands, pairs, extract_institutions_inc(rts))

FieldPairs == {"", TitleKey, "k1"} \X {"", "v1", "v2"}
PageTitles == {c \in CandidateLists : \A i \in 2..NumSelectors : c[i] = Missing}
PageRoots == {r \in RootLists : \A i \in 1..Len(r) : r[i].tables \in {<<>>, <<max_rows - 1>>}}

ExtractInit ==
    /\ ext_pc = "loaded"
    /\ candidates \in PageTitles
    /\ fields \in SeqsUpTo(FieldPairs, MaxPairs)
    /\ roots \in PageRoots
    /\ title = <<>> /\ data_full = NoData /\ data_inc = NoData
    /\ faults = {} /\ escaped = {}
    /\ PersistIdle /\ WalkIdle /\ IncIdle /\ DailyIdle /\ ClsIdle /\ FetchIdle

\* ClinicalTrialCrawler.extract_detail_data on the loaded page
ExtractFull ==
    /\ ext_pc \in {"loaded", "inc_done"}
    /\ data_full' = extract_detail_data_full(candidates, fields, roots)
    /\ title' = _find_first_text(candidates)
    /\ ext_pc' = IF ext_pc = "loaded" THEN "full_done" ELSE "done"
    /\ UNCHANGED <<candidates, fields, roots, data_inc, faults, escaped, offExt>>

\* IncrementalClinicalTrialCrawler.extract_detail_data on the loaded page
ExtractInc ==
    /\ ext_pc \in {"loaded", "full_done"}
    /\ data_inc' = extract_detail_data_inc(candidates, fields, roots)
    /\ title' = _find_first_text(candidates)
    /\ ext_pc' = IF ext_pc = "loaded" THEN "inc_done" ELSE "done"
    /\ UNCHANGED <<candidates, fields, roots, data_full, faults, escaped, offExt>>

ExtractNext == ExtractFull \/ ExtractInc

SpecExtract == ExtractInit /\ [][ExtractNext]_vars

(***************************************************************************)
(* extract_detail_data on a page on which Selenium calls raise.  A fault    *)
(* names the calls that raise on the page:                                 *)
(*   templates    find_elements of the three field extractors              *)
(*   tab          _open_institution_tab                                    *)
(*   containers   driver.find_elements for the institution containers      *)
(*   root_tables  root.find_elements(By.TAG_NAME, "table") in _scan_tables *)
(*   rows         tb.find_elements for the rows of a table                 *)
(*   page_tables  driver.find_elements(By.TAG_NAME, "table"), backup scan  *)
(***************************************************************************)
FaultPoints == {"templates", "tab", "containers", "root_tables", "rows", "page_tables"}

\* the three field extractors: an exception is caught per selector, per group,
\* per table and per list, and nothing is written
FieldsUnder(f, pairs) == IF "templates" \in f THEN {} ELSE PutFields({}, pairs)

\* the containers found: an exception is caught per selector
ContainersUnder(f, rts) ==
    IF "containers" \in f THEN <<>> ELSE RootsOf(rts, "container")

\* the loop over the containers: _scan_tables reads the root's tables outside
\* its try, and the loop has no try of its own
PrimaryScan(f, rts) ==
    IF ContainersUnder(f, rts) = <<>>
    THEN [entries |-> <<>>, idx |-> 1, returned |-> FALSE, raised |-> FALSE]
    ELSE IF "root_tables" \in f
    THEN [entries |-> <<>>, idx |-> 1, returned |-> FALSE, raised |-> TRUE]
    ELSE IF "rows" \in f
    THEN [entries |-> <<>>, idx |-> 1, returned |-> FALSE, raised |-> FALSE]
    ELSE LET c == ScanRoots(rts, ContainersUnder(f, rts), 1)
         IN [entries |-> c.entries, idx |-> c.idx, returned |-> c.returned,
             raised |-> FALSE]

\* the backup scan of 1c_fixed.py: the whole of it is inside one try
BackupScan(f, rts, next_idx) ==
    IF f \cap {"page_tables", "root_tables", "rows"} # {}
    THEN <<>>
    ELSE ScanRoots(rts, RootsOf(rts, "captioned"), next_idx).entries

\* _extract_institutions under the faults f: the entries written, and whether
\* an exception left it
extract_institutions_under(f, rts, backup) ==
    LET c == PrimaryScan(f, rts)
    IN IF c.raised THEN [entries |-> <<>>, raised |-> TRUE]
       ELSE IF c.returned \/ ~backup THEN [entries |-> c.entries, raised |-> FALSE]
       ELSE [entries |-> c.entries \o BackupScan(f, rts, c.idx), raised |-> FALSE]

\* extract_detail_data under the faults f, from the title on
extract_detail_data_under(f, cands, pairs, rts, backup) ==
    LET t == _find_first_text(cands)
        insts == extract_institutions_under(f, rts, backup)
    IN IF t = <<>> \/ _looks_garbage_page(t) THEN [data |-> NoData, raised |-> FALSE]
       ELSE IF insts.raised THEN [data |-> NoData, raised |-> TRUE]
       ELSE [data |-> [real |-> TRUE, title |-> t, fields |-> FieldsUnder(f, pairs),
                       inst |-> insts.entries],
             raised |-> FALSE]

FaultInit ==
    /\ ext_pc = "loaded"
    /\ candidates \in {c \in PageTitles : c[1] \in {<<"x300">>, Missing}}
    /\ fields \in SeqsUpTo({<<"k1", "v1">>}, 1)
    /\ roots \in PageRoots
    /\ faults \in SUBSET FaultPoints
    /\ title = <<>> /\ data_full = NoData /\ data_inc = NoData
    /\ escaped = {}
    /\ PersistIdle /\ WalkIdle /\ IncIdle /\ DailyIdle /\ ClsIdle /\ FetchIdle

\* ClinicalTrialCrawler.extract_detail_data on the loaded page
FaultyExtractFull ==
    /\ ext_pc \in {"loaded", "inc_done"}
    /\ LET r == extract_detail_data_under(faults, candidates, fields, roots, TRUE)
       IN /\ data_full' = r.data
          /\ escaped' = IF r.raised THEN escaped \cup {"full"} ELSE escaped
    /\ title' = _find_first_text(candidates)
    /\ ext_pc' = IF ext_pc = "loaded" THEN "full_done" ELSE "done"
    /\ UNCHANGED <<candidates, fields, roots, data_inc, faults, offExt>>

\* IncrementalClinicalTrialCrawler.extract_detail_data on the loaded page
FaultyExtractInc ==
    /\ ext_pc \in {"loaded", "full_done"}
    /\ LET r == extract_detail_data_under(faults, candidates, fields, roots, FALSE)
       IN /\ data_inc' = r.data
          /\ escaped' = IF r.raised THEN escaped \cup {"inc"} ELSE escaped
    /\ title' = _find_first_text(candidates)
    /\ ext_pc' = IF ext_pc = "loaded" THEN "inc_done" ELSE "done"
    /\ UNCHANGED <<candidates, fields, roots, data_full, faults, offExt>>

FaultNext == FaultyExtractFull \/ FaultyExtractInc

SpecFault == FaultInit /\ [][FaultNext]_vars

(***************************************************************************)
(* Properties of the two Range Walkers.                                    *)
(***************************************************************************)
\* the probes of the log that fall into year y
YearProbes(y) ==
    SelectSeq(probed, LAMBDA e : start_sn(y) <= e.sn /\ e.sn < end_sn_exclusive(y))

\* the scan of years[k] is over: a later year is being scanned, or the loop ended
YearFinished(k) ==
    /\ pc \in {"scan", "finally", "done"}
    /\ k \in 1..Len(years)
    /\ k < yi \/ (k = yi /\ outcome = "completed")

AllAbsent(log) == \A i \in 1..Len(log) : log[i].res = "ABSENT"

\* C1 (Spec): a target year with no persisted identifier, in which every probe
\* is ABSENT, is ended after exactly year_missing_threshold probes, and these
\* are the identifiers Y*100000+1 .. Y*100000+threshold in ascending order.
C1_AbsentYearStops ==
    \A k \in 1..Len(years) :
        LET y == years[k]
        IN (/\ YearFinished(k)
            /\ \A e \in existing_sns : ~(start_sn(y) <= ToNum(e) /\ ToNum(e) < end_sn_exclusive(y))
            /\ AllAbsent(YearProbes(y)))
           => YearProbes(y) = [i \in 1..year_missing_threshold |->
                                  [sn |-> y * 100000 + i, res |-> "ABSENT"]]

\* a completed session whose last year was all ABSENT under the default threshold
C1_Witness ==
    /\ pc = "done" /\ outcome = "completed"
    /\ year_missing_threshold = DefaultYearThreshold
    /\ AllAbsent(YearProbes(years[Len(years)]))
    /\ Len(YearProbes(years[Len(years)])) = 10
    /\ existing_sns = {}

\* the log is k REAL probes followed by ABSENT probes only
RealThenAbsent(log, k) == \A i \in 1..Len(log) : (log[i].res = "REAL") <=> (i <= k)

\* C2 (SpecInc): with no limit, when the pages r+1..r+k are REAL and every later
\* one is ABSENT, crawl_incremental returns exactly the k Records r+1..r+k in
\* that order, after probing r+1..r+k+T and nothing else; the largest captured
\* identifier is r+k.
C2_IncrementalRun ==
    (/\ pc = "done" /\ outcome = "completed" /\ args_limit = None
     /\ RealThenAbsent(probed, Len(rows)))
    => /\ Len(probed) = Len(rows) + max_consecutive_miss
       /\ \A i \in 1..Len(probed) : probed[i].sn = since_sn + i
       /\ rows = [i \in 1..Len(rows) |-> [clncTestSn |-> ToStr(since_sn + i), ver |-> 1]]
       /\ (rows # <<>> => SetMax({ToNum(rows[i].clncTestSn) : i \in 1..Len(rows)})
                             = since_sn + Len(rows))

\* the run of the specification: 5 REAL pages above the resume identifier, then
\* 20 misses
C2_Witness ==
    /\ pc = "done" /\ outcome = "completed" /\ args_limit = None
    /\ since_sn = ResumeFrom
    /\ max_consecutive_miss = DefaultMaxMiss
    /\ Len(rows) = 5
    /\ RealThenAbsent(probed, 5)
    /\ Len(probed) = 25
    /\ increment_csv = rows

\* C3 (SpecInc): an incremental session interrupted after at least one Record was
\* captured has flushed every captured Record to its CSV when the process ends.
C3_PartialFlushIncremental ==
    (pc = "done" /\ outcome \in {"interrupt", "error"} /\ Len(rows) >= 1)
        => increment_csv = rows

(***************************************************************************)
(* Properties of the Reconciler (checked under SpecMerge).                 *)
(***************************************************************************)
Written == save_state \in {"saved", "saved_no_side"}
IdsOf(frame) == {ToNum(frame[i].clncTestSn) : i \in 1..Len(frame)}
\* the first row of rows that carries identifier n
FirstRow(frame, n) ==
    frame[CHOOSE i \in 1..Len(frame) :
            /\ ToNum(frame[i].clncTestSn) = n
            /\ \A j \in 1..(i - 1) : ToNum(frame[j].clncTestSn) # n]

\* C5: after save_final has written the CSV, no two rows of the merged dataset
\* have the same Identifier, whatever the session Records and the persisted
\* rows (an absent file included) were.
C5_UniqueIdentifiers ==
    Written => \A i, j \in 1..Len(csv_rows) :
                   i # j => ToNum(csv_rows[i].clncTestSn) # ToNum(csv_rows[j].clncTestSn)

\* a merge whose inputs held the same Identifier more than once
C5_Witness ==
    /\ Written
    /\ IdsOf(all_data) \cap IdsOf(prev_rows) # {}
    /\ Len(prev_rows) > Cardinality(IdsOf(prev_rows))
    /\ Len(csv_rows) >= 2

\* C6: the dataset save_final writes is sorted ascending by numeric Identifier,
\* for every order of the session Records and of the persisted rows.
C6_SortedAscending ==
    Written => \A i, j \in 1..Len(csv_rows) :
                   i < j => ToNum(csv_rows[i].clncTestSn) <= ToNum(csv_rows[j].clncTestSn)

\* a merge of inputs that were both in descending order, with a one-digit and a
\* two-digit Identifier in the result
C6_Witness ==
    /\ Written
    /\ Len(all_data) >= 2 /\ ToNum(all_data[1].clncTestSn) > ToNum(all_data[2].clncTestSn)
    /\ Len(prev_rows) >= 2 /\ ToNum(prev_rows[1].clncTestSn) > ToNum(prev_rows[2].clncTestSn)
    /\ \E i, j \in 1..Len(csv_rows) : Len(csv_rows[i].clncTestSn) < Len(csv_rows[j].clncTestSn)

\* C7: idempotence.  Merging the same session Records into the dataset the merge
\* has just written gives that dataset again (same rows, same order), and a
\* save_final with no new Records leaves the file as it is.
C7_RemergeIsNoOp == Written => MergedFrame(all_data, csv_exists, csv_rows) = csv_rows
C7_EmptyMergeIsNoOp ==
    (save_state = "pending" /\ all_data = <<>>)
        => (csv_rows' = csv_rows /\ csv_exists' = csv_exists)
C8_NewRowsWin ==
    Written =>
        /\ IdsOf(csv_rows) = IdsOf(all_data) \cup IdsOf(prev_rows)
        /\ \A i \in 1..Len(csv_rows) :
              LET n == ToNum(csv_rows[i].clncTestSn)
              IN IF n \in IdsOf(all_data)
                 THEN csv_rows[i] = FirstRow(all_data, n) /\ csv_rows[i].ver = session
                 ELSE csv_rows[i] = FirstRow(prev_rows, n)

\* a merge in which one Identifier was in both inputs and another only in the file
C8_Witness ==
    /\ Written
    /\ \E n \in IdsOf(all_data) \cap IdsOf(prev_rows) : FirstRow(prev_rows, n).ver # session
    /\ IdsOf(prev_rows) \ IdsOf(all_data) # {}

\* C9: when save_final has written both files, the side file holds the maximum
\* numeric Identifier of the merged dataset; and the number in the side file
\* never decreases from one session to the next.
C9_WatermarkIsMax == save_state = "saved" => last_sn_file = SetMax(IdsOf(csv_rows))
C9_WatermarkMonotone == last_sn_file' >= last_sn_file
C9_Watermark == [](C9_WatermarkIsMax) /\ [][C9_WatermarkMonotone]_vars

\* a second session's merge whose maximum comes from a persisted row, with a
\* one-digit Identifier among the rows
C9_Witness ==
    /\ save_state = "saved" /\ session = 2
    /\ last_sn_file \notin IdsOf(all_data)
    /\ \E i \in 1..Len(csv_rows) : Len(csv_rows[i].clncTestSn) = 1

(***************************************************************************)
(* Properties of the daily reconciliation and of the Page Classifier.      *)
(***************************************************************************)
\* the rows the run appended
Appended == SelectSeq(ws_rows, LAMBDA r : r.ver = 1)
UniqueIds(sheet) ==
    \A i, j \in 1..Len(sheet) : i # j => sheet[i].clncTestSn # sheet[j].clncTestSn

\* C4 (SpecDaily): whatever get_existing_sns returns, every appended row carries
\* an Identifier that was not in the sheet before the run, no existing row is
\* changed, and a sheet with unique Identifiers keeps unique Identifiers.
C4_OnlyAbsentAppended ==
    daily_pc = "done" =>
        /\ \A i \in 1..Len(Appended) :
              \A j \in 1..Len(ws_before) : Appended[i].clncTestSn # ws_before[j].clncTestSn
        /\ \A j \in 1..Len(ws_before) : ws_before[j] \in Range(ws_rows)
        /\ UniqueIds(ws_before) => UniqueIds(ws_rows)

\* C10 as stated (SpecClassify): ABSENT exactly when the text is empty, or holds
\* at least 2 distinct garbage phrases, or is longer than 300 characters.
C10_AsStated ==
    cls_pc = "done" =>
        (garbage <=> \/ text = <<>>
                     \/ Cardinality({k \in DOMAIN bad_keys : Contains(bad_keys[k], text)}) >= 2
                     \/ CharLen(text) > 300)

\* the text as the classifier looks at it: commas read as spaces, the spaces at
\* both ends dropped
Seen(txt) ==
    LET spaced == [i \in 1..Len(txt) |-> IF txt[i] = "cm" THEN "sp" ELSE txt[i]]
        inner == {i \in 1..Len(spaced) : spaced[i] # "sp"}
    IN IF inner = {} THEN <<>>
       ELSE SubSeq(spaced, CHOOSE i \in inner : \A j \in inner : i <= j,
                           CHOOSE i \in inner : \A j \in inner : j <= i)

\* C10 amended (SpecClassify): ABSENT exactly when the text is empty, or when the
\* text with its commas read as spaces and the spaces at both ends dropped holds
\* at least 2 distinct garbage phrases or is longer than 300 characters; so for a
\* text with no comma and no space at either end the rule is the stated one.
C10_Classifier ==
    cls_pc = "done" =>
        /\ garbage <=>
              \/ text = <<>>
              \/ Cardinality({k \in DOMAIN bad_keys : Contains(bad_keys[k], Seen(text))}) >= 2
              \/ CharLen(Seen(text)) > 300
        /\ ("cm" \notin Range(text) /\ text # <<>> /\ text[1] # "sp" /\ text[Len(text)] # "sp")
              => (garbage <=>
                    \/ Cardinality({k \in DOMAIN bad_keys : Contains(bad_keys[k], text)}) >= 2
                    \/ CharLen(text) > 300)

\* a text of more than 300 characters that is REAL, because of the commas at its
\* end
C10_Witness ==
    /\ cls_pc = "done"
    /\ ~garbage
    /\ CharLen(text) > 300
    /\ text[Len(text)] = "cm"

(***************************************************************************)
(* Properties of main of 2c.py: exit code, resume point, limit, recycle.   *)
(***************************************************************************)
\* C13 (SpecInc): the exit code is 0 when at least one Record was captured and
\* also when the run completed cleanly with no Record; it is non-zero only on a
\* failure (configuration, no resume point, fetcher, interrupt, or the write of
\* the captured rows).
C13_ExitCode ==
    pc = "done" =>
        (exit_code # 0 <=>
            \/ outcome \in {"config_error", "no_since_sn", "error", "interrupt"}
            \/ rows # <<>> /\ increment_csv = <<>>)

C15_NeverMoreThanLimit ==
    args_limit # None =>
        /\ Len(rows) <= args_limit
        /\ args_limit = 0 => probed = <<>>
C15_NoProbeAtLimit ==
    (args_limit # None /\ Len(rows) >= args_limit) => probed' = probed

\* C15 (SpecInc): with limit = L the session never holds more than L Records,
\* and once it holds L no further identifier is probed; with L = 0 none is.
C15_Limit == [](C15_NeverMoreThanLimit) /\ [][C15_NoProbeAtLimit]_vars

\* a run that ended on its limit after probing
C15_Witness ==
    /\ args_limit # None /\ args_limit > 0
    /\ Len(rows) = args_limit
    /\ pc = "done" /\ outcome = "completed"
    /\ Len(probed) > Len(rows)

\* C18 (SpecInc): when the consecutive-miss counter reaches a multiple of 10 and
\* the scan goes on, the fetcher session is recreated before the next probe.
C18_RecycleOnMisses ==
    [][(pc = "scan_inc" /\ misses' = misses + 1 /\ misses' % 10 = 0 /\ pc' = "scan_inc")
          => driver_setups' > driver_setups]_vars

\* the same for crawl_years
C18_WalkerRecycles ==
    [][(pc = "scan" /\ consecutive_missing' = consecutive_missing + 1
        /\ consecutive_missing' % 10 = 0 /\ pc' = "scan" /\ yi' = yi)
          => driver_setups' > driver_setups]_vars

(***************************************************************************)
(* Properties of the counters and of the skip step of crawl_years.         *)
(***************************************************************************)
YearOf(n) == n \div 100000

RECURSIVE TrailingAbsent(_)
\* the number of ABSENT probes at the end of a log
TrailingAbsent(log) ==
    IF log = <<>> \/ log[Len(log)].res = "REAL" THEN 0
    ELSE 1 + TrailingAbsent(SubSeq(log, 1, Len(log) - 1))

C17_CounterIsTrailingMisses ==
    pc = "scan" =>
        consecutive_missing
            = TrailingAbsent(SelectSeq(probed, LAMBDA e : YearOf(e.sn) = years[yi]))
C17_ProbesInRange ==
    \A i \in 1..Len(probed) :
        /\ YearOf(probed[i].sn) \in Range(years)
        /\ probed[i].sn >= YearOf(probed[i].sn) * 100000 + 1
        /\ probed[i].sn < (YearOf(probed[i].sn) + 1) * 100000
        /\ (i = Len(probed) /\ pc = "scan") => YearOf(probed[i].sn) <= years[yi]
C17_LeavesYear ==
    pc = "scan" =>
        LET left == yi' # yi \/ (pc' = "finally" /\ outcome' = "completed")
            aborted == pc' = "finally" /\ outcome' # "completed"
            atThreshold == /\ Len(probed') = Len(probed) + 1
                           /\ probed'[Len(probed')].res = "ABSENT"
                           /\ consecutive_missing + 1 >= year_missing_threshold
            atEnd == sn + 1 >= (years[yi] + 1) * 100000 /\ ~aborted
        IN left <=> (atThreshold \/ atEnd)

PersistedAtStart == IF pc = "done" THEN prev_rows ELSE csv_rows
InPersisted(n) == \E i \in 1..Len(PersistedAtStart) : PersistedAtStart[i].clncTestSn = ToStr(n)

C20_PersistedNotFetched ==
    \A i \in 1..Len(probed) :
        ~(InPersisted(probed[i].sn) /\ YearOf(probed[i].sn) \notin refresh_years)
C20_SkipFrame ==
    skip_count' # skip_count =>
        /\ skip_count' = skip_count + 1
        /\ InPersisted(sn) /\ YearOf(sn) \notin refresh_years
        /\ UNCHANGED <<all_data, probed, success_count, fail_count, backup_files, driver,
                       driver_setups, persistVars>>
        /\ yi' = yi => (sn' = sn + 1 /\ UNCHANGED <<consecutive_missing, processed_in_year>>)
C20_RefreshFetches ==
    (pc = "scan" /\ years[yi] \in refresh_years) =>
        /\ skip_count' = skip_count
        /\ (pc' = "scan" /\ yi' = yi) =>
              (sn' = sn + 1 /\ Len(probed') = Len(probed) + 1 /\ probed'[Len(probed')].sn = sn)

\* C20 (Spec): an identifier of the persisted CSV whose year is not marked for
\* re-collection is never fetched, and stepping over it changes only the current
\* identifier and the skip counter; in a year marked for re-collection no
\* identifier is stepped over, persisted or not.
C20_SkipStep ==
    /\ [](C20_PersistedNotFetched)
    /\ [][C20_SkipFrame]_vars
    /\ [][C20_RefreshFetches]_vars

\* a session that stepped over a persisted identifier and probed the next one
C20_Witness ==
    /\ skip_count >= 1
    /\ probed # <<>>
    /\ \E i \in 1..Len(PersistedAtStart) :
          ToNum(PersistedAtStart[i].clncTestSn) < probed[1].sn

\* a step of the scan that probes an identifier and finds it ABSENT
AbsentProbe ==
    /\ pc = "scan"
    /\ Len(probed') = Len(probed) + 1
    /\ probed'[Len(probed')].res = "ABSENT"

C30_LowThresholdNoRecycle ==
    year_missing_threshold <= RecycleEvery => driver_setups <= 1
C30_StopBeforeRecycle ==
    (AbsentProbe /\ consecutive_missing + 1 >= year_missing_threshold) =>
        /\ UNCHANGED <<driver, driver_setups>>
        /\ yi' # yi \/ pc' = "finally"
C30_RecycleBelowThreshold ==
    (/\ pc = "scan"
     /\ driver_setups' # driver_setups
     /\ (processed_in_year + 1) % RestartEvery # 0) =>
        /\ AbsentProbe
        /\ (consecutive_missing + 1) % RecycleEvery = 0
        /\ consecutive_missing + 1 < year_missing_threshold

\* C30 (Spec): on an ABSENT probe the threshold test comes before the test of the
\* recycle every 10 misses: the miss that reaches the threshold ends the year
\* with the fetcher untouched, so under a threshold of at most 10 no miss
\* recycles the fetcher; a miss recycles it only at a consecutive-miss count
\* that is a multiple of 10 and strictly below the threshold.
C30_StopThenRecycle ==
    /\ [](C30_LowThresholdNoRecycle)
    /\ [][C30_StopBeforeRecycle]_vars
    /\ [][C30_RecycleBelowThreshold]_vars

\* a year ended by its 10th consecutive miss under the default threshold, the
\* fetcher never recycled
C30_Witness ==
    /\ pc = "done" /\ outcome = "completed"
    /\ year_missing_threshold = DefaultYearThreshold
    /\ TrailingAbsent(probed) = RecycleEvery
    /\ driver_setups = 1

\* the session was ended by an exception or an interrupt
Aborted == outcome \in {"interrupt", "error"}

C29_ScanIsOver ==
    Aborted =>
        /\ pc \in {"finally", "done"}
        /\ \A i \in 1..Len(probed) : probed[i].sn <= sn
C29_NoProbeAfterwards == Aborted => UNCHANGED <<probed, all_data, sn, yi>>
C29_CapturedAreMerged ==
    (pc = "done" /\ Aborted /\ all_data # <<>>) =>
        /\ save_state \in {"saved", "saved_no_side", "failed"}
        /\ Written => \A i \in 1..Len(all_data) :
                          \E j \in 1..Len(csv_rows) : csv_rows[j] = all_data[i]
C29_SaveFailureIsContained ==
    (pc = "done" /\ save_state = "failed") =>
        /\ driver # "live"
        /\ csv_exists = prev_exists /\ csv_rows = prev_rows

\* C29 (Spec): an exception that reaches crawl_years, or an interrupt, raised
\* while a year is scanned ends the whole session: no identifier above the
\* current one and no identifier of a later year is probed afterwards; the
\* Records captured before it are merged by save_final in the finally block,
\* and a failure of save_final is caught there: the block goes on to quit the
\* fetcher and the CSV is left as it was.
C29_AbortScope ==
    /\ [](C29_ScanIsOver /\ C29_CapturedAreMerged /\ C29_SaveFailureIsContained)
    /\ [][C29_NoProbeAfterwards]_vars

\* a session of two years interrupted in its first year after a Record was
\* captured, the Record merged into the CSV
C29_Witness ==
    /\ pc = "done" /\ outcome = "interrupt"
    /\ Len(years) = 2 /\ yi = 1
    /\ all_data # <<>>
    /\ Written

(***************************************************************************)
(* Termination of crawl_incremental.                                       *)
(***************************************************************************)
C28_Terminates == <>(pc = "done")
C28_LimitStops == (pc = "scan_inc" /\ LimitReached(rows, args_limit)) => pc' = "done"
C28_NoUpperBound ==
    (pc = "scan_inc" /\ pc' = "scan_inc") =>
        (sn' = sn + 1 /\ Len(probed') = Len(probed) + 1 /\ probed'[Len(probed')].sn = sn)
C28_StopsOnlyOnMisses ==
    (pc = "done" /\ outcome = "completed" /\ ~LimitReached(rows, args_limit)) =>
        TrailingAbsent(probed) = max_consecutive_miss

\* C28 (SpecIncFair): when only finitely many identifiers above the resume
\* identifier are REAL, or a limit is given and reached, crawl_incremental
\* terminates; while it scans it goes from one identifier to the next with no
\* upper bound, and short of the limit, an exception or an interrupt it stops
\* only when max_consecutive_miss probes in a row were ABSENT.
C28_IncrementalTermination ==
    /\ C28_Terminates
    /\ [](C28_StopsOnlyOnMisses)
    /\ [][C28_LimitStops]_vars
    /\ [][C28_NoUpperBound]_vars

\* a session without limit that captured Records, met the default number of
\* misses in a row and returned
C28_Witness ==
    /\ pc = "done" /\ outcome = "completed" /\ args_limit = None
    /\ rows # <<>>
    /\ max_consecutive_miss = DefaultMaxMiss
    /\ TrailingAbsent(probed) = DefaultMaxMiss

(***************************************************************************)
(* Properties of the extraction of one page.                               *)
(***************************************************************************)
\* the rendered text of the first candidate that has any visible character
FirstRendered(cands) ==
    LET shown == {i \in 1..Len(cands) :
                     cands[i] # Missing /\ \E j \in 1..Len(cands[i]) : cands[i][j] # "nl"
                                                                    /\ cands[i][j] # "sp"}
    IN IF shown = {} THEN <<>>
       ELSE cands[CHOOSE i \in shown : \A j \in shown : i <= j]

\* the characters of a text up to its first line break within
FirstLineOf(el) ==
    LET inner == {i \in 1..Len(el) : el[i] = "x300"}
        from == CHOOSE i \in inner : \A j \in inner : i <= j
        breaks == {i \in from..Len(el) : el[i] = "nl"}
    IN IF breaks = {} THEN SubSeq(el, from, Len(el))
       ELSE SubSeq(el, from, (CHOOSE i \in breaks : \A j \in breaks : i <= j) - 1)

\* the text has a line break between two visible characters
BreakWithin(el) ==
    \E i, j, k \in 1..Len(el) : i < j /\ j < k /\ el[i] = "x300" /\ el[j] = "nl" /\ el[k] = "x300"

\* C11 (SpecTitle): when the first non-empty title candidate has more than 500
\* characters and its rendered text contains a line break, the extracted Title
\* is the first line of that text.
C11_FirstLineKept ==
    ext_pc = "titled" =>
        LET el == FirstRendered(candidates)
        IN (el # <<>> /\ CharLen(el) > 500 /\ BreakWithin(el)) => title = FirstLineOf(el)

\* the page has one root, a container with a single table of 35 rows
SingleTableOf35 ==
    Len(roots) = 1 /\ roots[1].kind = "container" /\ roots[1].tables = <<35>>

\* C12 (SpecInst): the InstitutionEntries written into a Record never number
\* more than 30, over all containers, their tables and the backup scan; a
\* single table of 35 valid rows yields exactly 30.
C12_InstitutionCap ==
    ext_pc = "done" =>
        /\ Len(data_full.inst) <= 30
        /\ Len(data_inc.inst) <= 30
        /\ SingleTableOf35 => (data_full.real => Len(data_full.inst) = 30)
                              /\ (data_inc.real => Len(data_inc.inst) = 30)

\* C16 (SpecExtract): on the same page the two extractors make the same
\* REAL/ABSENT decision and return the same Record: the same Title, the same
\* field map, the same InstitutionEntries.
C16_SameRecord == ext_pc = "done" => data_full = data_inc

TitleKept(data) ==
    /\ data.title # <<>>
    /\ ~_looks_garbage_page(data.title)
    /\ data.title = title
    /\ \A q \in data.fields : q[1] # TitleKey

\* C26: every Record extract_detail_data returns (and so every Record appended
\* to the session) has a Title that is non-empty, that the Page Classifier does
\* not classify as garbage, and that is exactly the text title extraction
\* returned: no field template and no institution step overwrites it.
C26_TitleInvariant ==
    /\ data_full.real => TitleKept(data_full)
    /\ data_inc.real => TitleKept(data_inc)

\* a Record of a page on which a field template meets the title's key with a value
C26_Witness ==
    /\ ext_pc = "done"
    /\ data_full.real /\ data_inc.real
    /\ \E i \in 1..Len(fields) : fields[i][1] = TitleKey /\ fields[i][2] # ""

\* on a page without faults the extractors are those of SpecExtract
FaultFreeAgrees ==
    (ext_pc = "done" /\ faults = {}) =>
        /\ data_full = extract_detail_data_full(candidates, fields, roots)
        /\ data_inc = extract_detail_data_inc(candidates, fields, roots)

\* C24: on a page classified REAL, an exception raised inside a field template
\* or inside the Institution Sub-Extractor does not leave extract_detail_data:
\* a Record with at least the Title is returned, even when every step fails.
C24_Contained ==
    (ext_pc = "done" /\ title # <<>> /\ ~_looks_garbage_page(title)) =>
        /\ escaped = {}
        /\ data_full.real /\ data_full.title = title
        /\ data_inc.real /\ data_inc.title = title

(***************************************************************************)
(* The restart every 500 processed identifiers of crawl_years.             *)
(***************************************************************************)
\* C19 as stated (SpecLong): whenever the number of identifiers probed in the
\* session, over all of its years, reaches a positive multiple of 500 and the
\* scan goes on, the fetcher session is recreated before the next probe.
C19_AsStated ==
    [][(pc = "scan" /\ pc' = "scan" /\ Len(probed') = Len(probed) + 1
        /\ Len(probed') % 500 = 0)
          => driver_setups' > driver_setups]_vars

C19_CountIsPerYear ==
    pc = "scan" =>
        processed_in_year = Len(SelectSeq(probed, LAMBDA e : YearOf(e.sn) = years[yi]))
C19_RestartAtMultiple ==
    (pc = "scan" /\ pc' = "scan" /\ yi' = yi /\ processed_in_year' = processed_in_year + 1
     /\ processed_in_year' % 500 = 0)
        => /\ driver_setups' > driver_setups
           /\ driver' = "live"
           /\ (probed'[Len(probed')].res = "ABSENT" /\ consecutive_missing' % 10 = 0)
                 => driver_setups' = driver_setups + 2
C19_NoOtherRestart ==
    (pc = "scan" /\ driver_setups' > driver_setups)
        => \/ (processed_in_year + 1) % 500 = 0
           \/ (consecutive_missing + 1) % 10 = 0 /\ probed'[Len(probed')].res = "ABSENT"

\* C19 amended (SpecLong): the count is the number of identifiers probed in the
\* current year (it starts again at 0 with every year); whenever it reaches a
\* positive multiple of 500 and the scan of the year goes on, the fetcher
\* session is recreated before the next probe, and apart from the recycle on
\* misses the session is recreated at no other time.
C19_PeriodicRestart ==
    /\ [](C19_CountIsPerYear)
    /\ [][C19_RestartAtMultiple]_vars
    /\ [][C19_NoOtherRestart]_vars

\* 500 identifiers processed in a year that began with a REAL page: the session
\* was set up once, recycled 49 times on misses, and restarted once
C19_Witness ==
    /\ pc = "scan"
    /\ processed_in_year = 500
    /\ consecutive_missing = 499
    /\ driver = "live"
    /\ driver_setups = 51

(***************************************************************************)
(* Properties of the pinned endpoint and of the fetches (SpecFetch).       *)
(***************************************************************************)
\* a step of the scan that fetches the page of the current identifier
ProbeStep ==
    /\ pc = "scan"
    /\ ~SkipIdentifier(years[yi], sn, refresh_years, existing_sns)

\* the navigation of the step ended at an endpoint other than the pinned one
Redirected == ProbeStep /\ cur_base' # NoEndpoint /\ cur_base' # base_url

\* C21: after every call of detect_and_set_base_url in which no candidate
\* responds, at a fetcher restart as well as at the start, the pinned endpoint
\* is the first candidate of the list.
C21_DefaultIsFirst ==
    [][(detect_runs' # detect_runs /\ last_detect' = "no_response")
          => base_url' = FirstCandidate]_vars

\* C22, as stated: after a navigation that ended at an endpoint other than the
\* pinned one, detect_and_set_base_url runs before the next identifier is probed.
C22_AsStated ==
    [][(Redirected /\ pc' = "scan") => detect_runs' > detect_runs]_vars

C22_PinnedToResolved ==
    Redirected => (last_detect' # "found" => base_url' = cur_base')
C22_DetectOnlyAtSetup ==
    /\ detect_runs' # detect_runs => driver_setups' # driver_setups
    /\ (Redirected /\ driver_setups' = driver_setups) => last_detect' = "none"

\* C22, amended: after such a navigation the pinned endpoint is the endpoint the
\* fetcher ended at, and it stays so for the next identifier unless a fetcher
\* restart of the same iteration finds a responding candidate; the redirect
\* itself runs no candidate probing, which runs inside setup_driver only.
C22_Repin ==
    /\ [][C22_PinnedToResolved]_vars
    /\ [][C22_DetectOnlyAtSetup]_vars

\* a Record was captured from a page that ended at a host outside the candidate
\* list; the fetcher is pinned to that host and the scan goes on
C22_Witness ==
    /\ pc = "scan" /\ fetch_event = "ok"
    /\ all_data # <<>>
    /\ cur_base \notin CandidateBases /\ base_url = cur_base
    /\ detect_runs = 1

\* C23: a failed navigation, and a failed or timed-out wait for the page, make
\* the probe a miss: no Record, the consecutive-miss counter one higher, and
\* the session is not ended by it.
C23_TransientIsMiss ==
    [][(ProbeStep /\ fetch_event' \in {"nav_failed", "wait_timeout", "wait_failed"}) =>
          /\ all_data' = all_data
          /\ probed' = Append(probed, [sn |-> sn, res |-> "ABSENT"])
          /\ (pc' = "scan" /\ yi' = yi) => consecutive_missing' = consecutive_missing + 1
          /\ outcome' = "error" => driver_setups' # driver_setups]_vars

(***************************************************************************)
(* Properties of the page-fetcher session (the Selenium driver).           *)
(***************************************************************************)

\* C25: at most one page-fetcher session is live at any time, and when a crawl
\* session has ended, by completion, by interrupt or by error, no fetcher
\* session is left live.
C25_NoSessionLeftLive == pc = "done" => driver # "live"
====
